---- MODULE Spec2Model ----
(***************************************************************************)
(* Egg tracker (src/index.js, src/db.js): a webhook endpoint that turns a  *)
(* notification payload into (eggName, weight, rarity) and appends it to   *)
(* hatch_logs, and slash commands (setup, dailycount, egg) that configure  *)
(* a guild and count its events.                                           *)
(*                                                                         *)
(* Text is modelled as a sequence of one-character strings, weights in     *)
(* thousandths of a kg, instants in whole hours since the epoch.           *)
(***************************************************************************)
EXTENDS Integers, Sequences, FiniteSets, TLC

VARIABLES
    pStage, pBody, pRes,          \* payload interpreter: stage, payload, result
    kg, tier, kStage,             \* rarity classifier: weight, tier, stage
    rStage, rNow, rTz, rPeriod, rRes, \* period resolver: stage, inputs, result
    gStage, gGuild, gRes,         \* getSettings: stage, guild asked for, result
    settings,                     \* table settings: a set of rows
    hatch_logs,                   \* table hatch_logs: rows in insertion order
    clock,                        \* the current instant
    hook,                         \* the webhook delivery being handled
    resp,                         \* the outcome of the last command invocation
    lastSave                      \* per guild, the caller and options of its last completed save

parseVars == <<pStage, pBody, pRes>>
classVars == <<kg, tier, kStage>>
periodVars == <<rStage, rNow, rTz, rPeriod, rRes>>
readVars == <<gStage, gGuild, gRes>>
pureVars == <<pStage, pBody, pRes, kg, tier, kStage, rStage, rNow, rTz, rPeriod, rRes,
              gStage, gGuild, gRes>>
sysVars == <<settings, hatch_logs, clock, hook, resp, lastSave>>
vars == <<pStage, pBody, pRes, kg, tier, kStage, rStage, rNow, rTz, rPeriod, rRes,
          gStage, gGuild, gRes,
          settings, hatch_logs, clock, hook, resp, lastSave>>

(***************************************************************************)
(* Text                                                                    *)
(***************************************************************************)
UpperChars == <<"A","B","C","D","E","F","G","H","I","J","K","L","M",
                "N","O","P","Q","R","S","T","U","V","W","X","Y","Z">>
LowerChars == <<"a","b","c","d","e","f","g","h","i","j","k","l","m",
                "n","o","p","q","r","s","t","u","v","w","x","y","z">>
DigitChars == <<"0","1","2","3","4","5","6","7","8","9">>

\* String.prototype.toLowerCase on one character
LowerChar(c) ==
    IF \E i \in 1..Len(UpperChars) : UpperChars[i] = c
    THEN LowerChars[CHOOSE i \in 1..Len(UpperChars) : UpperChars[i] = c]
    ELSE c

toLowerCase(s) == [i \in 1..Len(s) |-> LowerChar(s[i])]

IsDigit(c) == c \in {"0","1","2","3","4","5","6","7","8","9"}
DigitVal(c) == (CHOOSE i \in 1..Len(DigitChars) : DigitChars[i] = c) - 1

\* \s of the regular expressions, and the characters trim() removes
IsSpace(c) == c \in {" ", "\n", "\t"}

MinOf(S) == CHOOSE x \in S : \A y \in S : x <= y
MaxOf(S) == CHOOSE x \in S : \A y \in S : x >= y

\* does sub occur in s at index i
OccursAt(s, sub, i) ==
    /\ i >= 1
    /\ i + Len(sub) - 1 <= Len(s)
    /\ SubSeq(s, i, i + Len(sub) - 1) = sub

\* String.prototype.includes
includes(s, sub) == \E i \in 1..(Len(s) + 1) : OccursAt(s, sub, i)

\* String.prototype.endsWith
endsWith(s, sub) == OccursAt(s, sub, Len(s) - Len(sub) + 1)

cEgg == <<"e","g","g">>
cFrom == <<"f","r","o","m">>
cWeight == <<"w","e","i","g","h","t">>
cHatchedFrom == <<"h","a","t","c","h","e","d"," ","f","r","o","m">>
cUnknown == <<"U","n","k","n","o","w","n">>

\* s.replace(/egg/gi, ""): one left-to-right pass over non-overlapping matches
RECURSIVE StripEgg(_)
StripEgg(s) ==
    IF Len(s) < 3 THEN s
    ELSE IF toLowerCase(SubSeq(s, 1, 3)) = cEgg
         THEN StripEgg(SubSeq(s, 4, Len(s)))
         ELSE <<s[1]>> \o StripEgg(Tail(s))

\* String.prototype.trim
trim(s) ==
    LET keep == {i \in 1..Len(s) : ~IsSpace(s[i])}
    IN  IF keep = {} THEN <<>> ELSE SubSeq(s, MinOf(keep), MaxOf(keep))

\* the last index of the run of digits that starts at i
DigitRunEnd(s, i) ==
    LET stops == {j \in i..Len(s) : ~IsDigit(s[j])}
    IN  IF stops = {} THEN Len(s) ELSE MinOf(stops) - 1

RECURSIVE DigitsValue(_)
DigitsValue(ds) ==
    IF ds = <<>> THEN 0
    ELSE 10 * DigitsValue(SubSeq(ds, 1, Len(ds) - 1)) + DigitVal(ds[Len(ds)])

\* parseFloat of the text int[.frac], in thousandths of a kg
parseFloat(int, frac) ==
    LET f3 == [i \in 1..3 |-> IF i <= Len(frac) THEN frac[i] ELSE "0"]
    IN  1000 * DigitsValue(int) + DigitsValue(f3)

NoMatch == [found |-> FALSE, val |-> 0]

\* [0-9]+(\.[0-9]+)? anchored at i: the end of the integer part, and of the
\* fraction when a "." and a digit follow (both quantifiers are greedy)
IntEnd(s, i) == DigitRunEnd(s, i)
HasFrac(s, i) ==
    LET j == IntEnd(s, i)
    IN  j + 2 <= Len(s) /\ s[j + 1] = "." /\ IsDigit(s[j + 2])
FracEnd(s, i) == DigitRunEnd(s, IntEnd(s, i) + 2)
NumValue(s, i, withFrac) ==
    parseFloat(SubSeq(s, i, IntEnd(s, i)),
               IF withFrac THEN SubSeq(s, IntEnd(s, i) + 2, FracEnd(s, i)) ELSE <<>>)

\* val.match(/([0-9]+(?:\.[0-9]+)?)/): the leftmost numeric token
FirstNumber(s) ==
    LET starts == {i \in 1..Len(s) : IsDigit(s[i])}
    IN  IF starts = {} THEN NoMatch
        ELSE [found |-> TRUE, val |-> NumValue(s, MinOf(starts), HasFrac(s, MinOf(starts)))]

\* \s*kg (case-insensitive) matched from index p
KgAt(s, p) ==
    LET rest == {q \in p..Len(s) : ~IsSpace(s[q])}
    IN  /\ rest # {}
        /\ MinOf(rest) + 1 <= Len(s)
        /\ LowerChar(s[MinOf(rest)]) = "k"
        /\ LowerChar(s[MinOf(rest) + 1]) = "g"

\* /([0-9]+(\.[0-9]+)?)\s*kg/i tried at start index i: with the fraction
\* first, then (backtracking) without it; a shorter run of digits is always
\* followed by a digit and cannot match
KgMatchAt(s, i) ==
    IF ~IsDigit(s[i]) THEN NoMatch
    ELSE IF HasFrac(s, i) /\ KgAt(s, FracEnd(s, i) + 1)
         THEN [found |-> TRUE, val |-> NumValue(s, i, TRUE)]
    ELSE IF KgAt(s, IntEnd(s, i) + 1)
         THEN [found |-> TRUE, val |-> NumValue(s, i, FALSE)]
    ELSE NoMatch

\* text.match(/([0-9]+(\.[0-9]+)?)\s*kg/i): the leftmost match
KgMatch(s) ==
    LET starts == {i \in 1..Len(s) : KgMatchAt(s, i).found}
    IN  IF starts = {} THEN NoMatch ELSE KgMatchAt(s, MinOf(starts))

NoCapture == [found |-> FALSE, text |-> <<>>]

\* the end of the line that holds index k ("." does not match a newline)
LineEnd(s, k) ==
    LET nls == {j \in k..Len(s) : s[j] = "\n"}
    IN  IF nls = {} THEN Len(s) ELSE MinOf(nls) - 1

\* /Hatched From\s*[:\-]\s*(.+)/i tried at start index i. The second \s* is
\* greedy and gives characters back until (.+) has one to take.
HatchedFromAt(s, i) ==
    IF ~OccursAt(toLowerCase(s), cHatchedFrom, i) THEN NoCapture
    ELSE
      LET p == i + Len(cHatchedFrom)
          nonsp == {q \in p..Len(s) : ~IsSpace(s[q])}
      IN  IF nonsp = {} \/ s[MinOf(nonsp)] \notin {":", "-"} THEN NoCapture
          ELSE
            LET r == MinOf(nonsp) + 1
                after == {q \in r..Len(s) : ~IsSpace(s[q])}
                r2 == IF after = {} THEN Len(s) + 1 ELSE MinOf(after)
                cands == {k \in r..r2 : k <= Len(s) /\ s[k] # "\n"}
            IN  IF cands = {} THEN NoCapture
                ELSE [found |-> TRUE,
                      text |-> SubSeq(s, MaxOf(cands), LineEnd(s, MaxOf(cands)))]

\* content.match(/Hatched From\s*[:\-]\s*(.+)/i): the leftmost match
HatchedFromMatch(s) ==
    LET starts == {i \in 1..Len(s) : HatchedFromAt(s, i).found}
    IN  IF starts = {} THEN NoCapture ELSE HatchedFromAt(s, MinOf(starts))

\* String(n) for a natural number
RECURSIVE NumToString(_)
NumToString(n) ==
    IF n < 10 THEN <<DigitChars[n + 1]>>
    ELSE NumToString(n \div 10) \o <<DigitChars[(n % 10) + 1]>>

(***************************************************************************)
(* JSON values of a webhook payload                                        *)
(***************************************************************************)
\* a scalar: absent (undefined), null, a number or a string
Undef == [t |-> "undef", s |-> <<>>, n |-> 0]
Null == [t |-> "null", s |-> <<>>, n |-> 0]
Num(n) == [t |-> "num", s |-> <<>>, n |-> n]
Str(s) == [t |-> "str", s |-> s, n |-> 0]

\* JavaScript truthiness of a scalar
Truthy(v) == (v.t = "str" /\ v.s # <<>>) \/ (v.t = "num" /\ v.n # 0)

\* an entry of embeds[0].fields: an object {name, value}, or null
Field(name, value) == [t |-> "obj", name |-> name, value |-> value]
NullField == [t |-> "null", name |-> Undef, value |-> Undef]

\* embeds[0].fields: absent, null, or an array of entries
NoFields == [t |-> "undef", a |-> <<>>]
NullFields == [t |-> "null", a |-> <<>>]
FieldsArr(a) == [t |-> "arr", a |-> a]

\* an entry of embeds: an object {title, fields}, or null
Embed(title, fields) == [t |-> "obj", title |-> title, fields |-> fields]
NullEmbed == [t |-> "null", title |-> Undef, fields |-> NoFields]

\* body.embeds: absent, null, or an array of entries
NoEmbeds == [t |-> "undef", a |-> <<>>]
NullEmbeds == [t |-> "null", a |-> <<>>]
EmbedsArr(a) == [t |-> "arr", a |-> a]

Body(embeds, content, channel_id) ==
    [embeds |-> embeds, content |-> content, channel_id |-> channel_id]

(***************************************************************************)
(* JSON.stringify(body). Keys are written in the order embeds, content,    *)
(* channel_id (title, fields; name, value), absent keys are left out.      *)
(***************************************************************************)
cNull == <<"n","u","l","l">>

RECURSIVE JsonEscape(_)
JsonEscape(s) ==
    IF s = <<>> THEN <<>>
    ELSE (CASE s[1] = "\n" -> <<"\\", "n">>
            [] s[1] = "\t" -> <<"\\", "t">>
            [] s[1] = "\"" -> <<"\\", "\"">>
            [] s[1] = "\\" -> <<"\\", "\\">>
            [] OTHER -> <<s[1]>>) \o JsonEscape(Tail(s))

JsonString(s) == <<"\"">> \o JsonEscape(s) \o <<"\"">>

JsonScalar(v) ==
    CASE v.t = "str" -> JsonString(v.s)
      [] v.t = "num" -> NumToString(v.n)
      [] OTHER -> cNull

\* "key":value, or nothing when the value is absent
JsonMember(key, present, text) ==
    IF present THEN <<JsonString(key) \o <<":">> \o text>> ELSE <<>>

\* the members of an object or the elements of an array, joined by commas
RECURSIVE JsonJoin(_)
JsonJoin(parts) ==
    IF parts = <<>> THEN <<>>
    ELSE IF Len(parts) = 1 THEN parts[1]
    ELSE parts[1] \o <<",">> \o JsonJoin(Tail(parts))

JsonObject(members) == <<"{">> \o JsonJoin(members) \o <<"}">>
JsonArray(elems) == <<"[">> \o JsonJoin(elems) \o <<"]">>

JsonField(f) ==
    IF f.t = "null" THEN cNull
    ELSE JsonObject(
           JsonMember(<<"n","a","m","e">>, f.name.t # "undef", JsonScalar(f.name))
        \o JsonMember(<<"v","a","l","u","e">>, f.value.t # "undef", JsonScalar(f.value)))

JsonFields(fs) ==
    IF fs.t = "arr" THEN JsonArray([i \in 1..Len(fs.a) |-> JsonField(fs.a[i])])
    ELSE cNull

JsonEmbed(e) ==
    IF e.t = "null" THEN cNull
    ELSE JsonObject(
           JsonMember(<<"t","i","t","l","e">>, e.title.t # "undef", JsonScalar(e.title))
        \o JsonMember(<<"f","i","e","l","d","s">>, e.fields.t # "undef", JsonFields(e.fields)))

JsonEmbeds(es) ==
    IF es.t = "arr" THEN JsonArray([i \in 1..Len(es.a) |-> JsonEmbed(es.a[i])])
    ELSE cNull

stringify(body) ==
    JsonObject(
           JsonMember(<<"e","m","b","e","d","s">>, body.embeds.t # "undef",
                      JsonEmbeds(body.embeds))
        \o JsonMember(<<"c","o","n","t","e","n","t">>, body.content.t # "undef",
                      JsonScalar(body.content))
        \o JsonMember(<<"c","h","a","n","n","e","l","_","i","d">>,
                      body.channel_id.t # "undef", JsonScalar(body.channel_id)))

(***************************************************************************)
(* parseWebhookPayload                                                     *)
(***************************************************************************)
\* the loop's variables; threw records a TypeError raised on the way
LoopStart == [eggName |-> Null, weight |-> 0, threw |-> FALSE]
Thrown == [eggName |-> Null, weight |-> 0, threw |-> TRUE]

\* FieldStep with an early exit: a name already found is kept
FieldStepFirstWins(acc, f) ==
    IF acc.threw THEN acc
    ELSE IF f.t = "null" THEN Thrown
    ELSE IF Truthy(f.name) /\ f.name.t # "str" THEN Thrown
    ELSE
      LET name == IF Truthy(f.name) THEN toLowerCase(f.name.s) ELSE <<>>
          val == IF ~Truthy(f.value) THEN <<>>
                 ELSE IF f.value.t = "num" THEN NumToString(f.value.n)
                 ELSE f.value.s
          m == FirstNumber(val)
      IN  [eggName |-> IF includes(name, cFrom) /\ ~Truthy(acc.eggName)
                       THEN Str(trim(StripEgg(val)))
                       ELSE acc.eggName,
           weight |-> IF includes(name, cWeight) /\ m.found
                      THEN m.val
                      ELSE acc.weight,
           threw |-> FALSE]

\* one iteration of `for (const f of e.fields)`
\*   f.name on a null entry throws; (f.name || "").toLowerCase() throws when
\*   f.name is a non-zero number; (f.value || "").toString() never throws
FieldStep(acc, f) ==
    IF acc.threw THEN acc
    ELSE IF f.t = "null" THEN Thrown
    ELSE IF Truthy(f.name) /\ f.name.t # "str" THEN Thrown
    ELSE
      LET name == IF Truthy(f.name) THEN toLowerCase(f.name.s) ELSE <<>>
          val == IF ~Truthy(f.value) THEN <<>>
                 ELSE IF f.value.t = "num" THEN NumToString(f.value.n)
                 ELSE f.value.s
          m == FirstNumber(val)
      IN  [eggName |-> IF includes(name, cFrom)
                       THEN Str(trim(StripEgg(val)))
                       ELSE acc.eggName,
           weight |-> IF includes(name, cWeight) /\ m.found
                      THEN m.val
                      ELSE acc.weight,
           threw |-> FALSE]

RECURSIVE FieldLoop(_, _)
FieldLoop(acc, fs) ==
    IF fs = <<>> THEN acc
    ELSE FieldLoop(FieldStep(acc, fs[1]), Tail(fs))

\* `if (body.embeds?.length) { ... }`: the fields loop and the title
EmbedStep(body) ==
    IF body.embeds.t # "arr" \/ body.embeds.a = <<>> THEN LoopStart
    ELSE
      LET e == body.embeds.a[1]
      IN  IF e.t = "null" THEN Thrown
          ELSE
            LET acc == IF e.fields.t = "arr"
                       THEN FieldLoop(LoopStart, e.fields.a)
                       ELSE LoopStart
            IN  IF acc.threw THEN acc
                ELSE IF ~Truthy(acc.eggName) /\ Truthy(e.title)
                     THEN [acc EXCEPT !.eggName = e.title]
                     ELSE acc

\* `if (!eggName && body.content) { ... }`: body.content.match throws when
\* content is a non-zero number
ContentStep(acc, body) ==
    IF acc.threw THEN acc
    ELSE IF Truthy(acc.eggName) \/ ~Truthy(body.content) THEN acc
    ELSE IF body.content.t # "str" THEN Thrown
    ELSE
      LET m == HatchedFromMatch(body.content.s)
      IN  IF m.found THEN [acc EXCEPT !.eggName = Str(trim(StripEgg(m.text)))]
          ELSE acc

\* `if (!weight && weightMatch) weight = parseFloat(weightMatch[1])`
WeightStep(acc, body) ==
    IF acc.threw THEN acc
    ELSE
      LET weightMatch == KgMatch(stringify(body))
      IN  IF acc.weight = 0 /\ weightMatch.found
          THEN [acc EXCEPT !.weight = weightMatch.val]
          ELSE acc

\* the value returned, or ok = FALSE when the call throws
parseWebhookPayload(body) ==
    LET acc == WeightStep(ContentStep(EmbedStep(body), body), body)
    IN  IF acc.threw THEN [ok |-> FALSE, eggName |-> Undef, weight |-> 0]
        ELSE [ok |-> TRUE,
              eggName |-> IF Truthy(acc.eggName) THEN acc.eggName ELSE Str(cUnknown),
              weight |-> acc.weight]

(***************************************************************************)
(* classifyRarity (kg in thousandths); "none" is the null result           *)
(***************************************************************************)
\* classifyRarity with the top band open at 15.0
classifyRarityOpenTop(w) ==
    IF w >= 4000 /\ w < 5000 THEN "semi_huge"
    ELSE IF w >= 5000 /\ w < 7000 THEN "huge"
    ELSE IF w >= 7000 /\ w < 8000 THEN "semi_titan"
    ELSE IF w >= 8000 /\ w < 9000 THEN "titan"
    ELSE IF w >= 9000 /\ w < 15000 THEN "godly"
    ELSE "none"

classifyRarity(w) ==
    IF w >= 4000 /\ w < 5000 THEN "semi_huge"
    ELSE IF w >= 5000 /\ w < 7000 THEN "huge"
    ELSE IF w >= 7000 /\ w < 8000 THEN "semi_titan"
    ELSE IF w >= 8000 /\ w < 9000 THEN "titan"
    ELSE IF w >= 9000 /\ w <= 15000 THEN "godly"
    ELSE "none"

(***************************************************************************)
(* Period resolution of dailycount and egg (instants in hours; the server  *)
(* clock runs in UTC, so a local calendar day is 24 hours)                 *)
(***************************************************************************)
cUtc == <<"u","t","c">>
cToday == <<"t","o","d","a","y">>
c24h == <<"2","4","h">>
cD == <<"d">>

\* /UTC([+-]\d{1,2})/i tried at start index i
TzMatchAt(s, i) ==
    /\ OccursAt(toLowerCase(s), cUtc, i)
    /\ i + 4 <= Len(s)
    /\ s[i + 3] \in {"+", "-"}
    /\ IsDigit(s[i + 4])

\* `match ? parseInt(match[1], 10) : 0` for tz.match(/UTC([+-]\d{1,2})/i)
offsetHours(tz) ==
    LET starts == {i \in 1..Len(tz) : TzMatchAt(tz, i)}
    IN  IF starts = {} THEN 0
        ELSE
          LET i == MinOf(starts)
              last == IF i + 5 <= Len(tz) /\ IsDigit(tz[i + 5]) THEN i + 5 ELSE i + 4
              mag == DigitsValue(SubSeq(tz, i + 4, last))
          IN  IF tz[i + 3] = "-" THEN 0 - mag ELSE mag

\* Date.UTC(now.getUTCFullYear(), now.getUTCMonth(), now.getUTCDate())
utcMidnight(now) == now - (now % 24)

\* localMidnight.setUTCHours(localMidnight.getUTCHours() - offsetHours)
localMidnight(now, tz) == utcMidnight(now) - offsetHours(tz)

NaN == [nan |-> TRUE, v |-> 0]
Parsed(v) == [nan |-> FALSE, v |-> v]

\* parseInt(s): leading white space, an optional sign, then digits
parseInt(s) ==
    LET body == {i \in 1..Len(s) : ~IsSpace(s[i])}
    IN  IF body = {} THEN NaN
        ELSE
          LET b == MinOf(body)
              signed == s[b] \in {"+", "-"}
              d == IF signed THEN b + 1 ELSE b
          IN  IF d > Len(s) \/ ~IsDigit(s[d]) THEN NaN
              ELSE
                LET mag == DigitsValue(SubSeq(s, d, DigitRunEnd(s, d)))
                IN  Parsed(IF s[b] = "-" THEN 0 - mag ELSE mag)

Since(v) == [ok |-> TRUE, since |-> v]
\* since is an Invalid Date: since.toISOString() throws a RangeError
InvalidDate == [ok |-> FALSE, since |-> 0]

\* the egg command's `since`, from the period token, the instant and the
\* guild's timezone token
\*   since.setDate(now.getDate() - parseInt(period)) with a NaN argument
\*   makes since an Invalid Date
periodSince(period, now, tz) ==
    IF period = cToday THEN Since(localMidnight(now, tz))
    ELSE IF endsWith(period, cD)
         THEN IF parseInt(period).nan THEN InvalidDate
              ELSE Since(now - 24 * parseInt(period).v)
    ELSE IF period = c24h THEN Since(now - 24)
    ELSE Since(now - 24)

(***************************************************************************)
(* Inputs of the payload interpreter                                       *)
(***************************************************************************)
MaxFields == 2

tHatchedFrom == <<"H","a","t","c","h","e","d"," ","F","r","o","m">>
tWeight == <<"W","e","i","g","h","t">>
tRareEgg == <<"R","a","r","e"," ","E","g","g">>
tEgg == <<"E","g","g">>
tOverlap == <<"e","e","g","g","g","g">>
tKgValue == <<"7",".","2","5"," ","k","g">>
tZero == <<"0">>
tTitle == <<"9"," ","k","g">>
tContent == <<"H","a","t","c","h","e","d"," ","F","r","o","m",":"," ",
              "L","e","g","e","n","d","a","r","y"," ","E","g","g">>

Labels == {Str(tHatchedFrom), Str(tWeight)}
Values == {Str(tRareEgg), Str(tEgg), Str(tOverlap), Str(tKgValue), Str(tZero),
           Undef, Num(5)}
Entries ==
    {NullField, Field(Undef, Str(tKgValue)), Field(Num(5), Undef)}
    \cup {Field(l, v) : l \in Labels, v \in Values}
\* field lists of up to max entries, and the payloads built from them
FieldLists(max) == UNION {[1..n -> Entries] : n \in 0..max}
FieldsValues(max) == {NoFields, NullFields} \cup {FieldsArr(a) : a \in FieldLists(max)}
Titles == {Undef, Str(tTitle), Num(7)}
Contents == {Undef, Str(tContent), Num(3)}
EmbedsValues(max) ==
    {NoEmbeds, NullEmbeds, EmbedsArr(<<>>), EmbedsArr(<<NullEmbed>>)}
    \cup {EmbedsArr(<<Embed(ti, fs)>>) : ti \in Titles, fs \in FieldsValues(max)}
Payloads(max) == {Body(es, c, Undef) : es \in EmbedsValues(max), c \in Contents}

EmptyBody == Body(NoEmbeds, Undef, Undef)
NoResult == [ok |-> FALSE, eggName |-> Undef, weight |-> 0]

ParseIdle == pStage = "off" /\ pBody = EmptyBody /\ pRes = NoResult
ClassIdle == kStage = "off" /\ kg = 0 /\ tier = "none"
PeriodIdle ==
    /\ rStage = "off" /\ rNow = 0 /\ rTz = <<>> /\ rPeriod = <<>>
    /\ rRes = InvalidDate

(***************************************************************************)
(* The store: tables settings and hatch_logs                               *)
(***************************************************************************)
\* the process-wide defaults: the deployment sets WEBHOOK_CHANNEL_ID to a
\* channel of guild g1 and leaves TIMEZONE_OFFSET and LOSS_MULTIPLIER unset
WEBHOOK_CHANNEL_ID == Str(<<"1","1">>)
DEFAULT_TZ == <<"U","T","C","+","0">>
DEFAULT_LOSS == 1

Guilds == {"g1", "g2"}
NoGuild == "null"
cChan1 == <<"1","1">>
cChan2 == <<"2","2">>
cChan3 == <<"3","3">>
\* the channels of each guild (a channel option names a channel of the guild)
GuildChannels(g) == IF g = "g1" THEN {Str(cChan1), Str(cChan3)} ELSE {Str(cChan2)}

Row(guildId, channelId, timezone, lossMultiplier) ==
    [guild_id |-> guildId, webhook_channel_id |-> channelId,
     timezone_offset |-> timezone, loss_multiplier |-> lossMultiplier]

\* saveSettings that keeps the other columns of an existing row
saveSettingsChannelOnly(S, guildId, channelId, timezone, lossMultiplier) ==
    IF \E r \in S : r.guild_id = guildId
    THEN {IF r.guild_id = guildId THEN [r EXCEPT !.webhook_channel_id = channelId]
          ELSE r : r \in S}
    ELSE S \cup {Row(guildId, channelId, Str(timezone), Num(lossMultiplier))}

\* INSERT INTO settings ... ON CONFLICT (guild_id) DO UPDATE SET ...
\* (guild_id is the primary key of settings)
saveSettings(S, guildId, channelId, timezone, lossMultiplier) ==
    IF \E r \in S : r.guild_id = guildId
    THEN {IF r.guild_id = guildId
          THEN Row(guildId, channelId, Str(timezone), Num(lossMultiplier))
          ELSE r : r \in S}
    ELSE S \cup {Row(guildId, channelId, Str(timezone), Num(lossMultiplier))}

\* getSettings: the stored row merged with the process defaults by `||`
getSettings(S, guildId) ==
    LET rows == {r \in S : r.guild_id = guildId}
    IN  IF rows = {}
        THEN [webhook_channel_id |-> WEBHOOK_CHANNEL_ID,
              timezone_offset |-> DEFAULT_TZ,
              loss_multiplier |-> DEFAULT_LOSS]
        ELSE
          LET r == CHOOSE r \in rows : TRUE
          IN  [webhook_channel_id |->
                   IF Truthy(r.webhook_channel_id) THEN r.webhook_channel_id
                   ELSE WEBHOOK_CHANNEL_ID,
               timezone_offset |->
                   IF Truthy(r.timezone_offset) THEN r.timezone_offset.s
                   ELSE DEFAULT_TZ,
               loss_multiplier |->
                   IF Truthy(r.loss_multiplier) THEN r.loss_multiplier.n
                   ELSE DEFAULT_LOSS]

ReadIdle ==
    /\ gStage = "off" /\ gGuild = "g1"
    /\ gRes = getSettings({}, "g1")

\* the row insertLog writes; hatched_at is the column default now()
LogRow(guildId, eggName, weight, rarity, at) ==
    [guild_id |-> guildId, egg_name |-> eggName, weight |-> weight,
     rarity |-> rarity, hatched_at |-> at]

\* an insert that replaces the rows of the table by the new row
insertLogReplacing(L, guildId, eggName, weight, rarity, at) ==
    <<LogRow(guildId, eggName, weight, rarity, at)>>

insertLog(L, guildId, eggName, weight, rarity, at) ==
    Append(L, LogRow(guildId, eggName, weight, rarity, at))

\* the five tier names countRaritySince starts its map with
Tiers == {"semi_huge", "huge", "semi_titan", "titan", "godly"}

\* SELECT rarity, COUNT(*) as cnt FROM hatch_logs WHERE guild_id=$1 AND
\* hatched_at >= $2 GROUP BY rarity: one row per rarity value that occurs,
\* the null rarity ("none") included
rarityGroups(L, guildId, sinceTs) ==
    LET hits == {i \in 1..Len(L) : L[i].guild_id = guildId /\ L[i].hatched_at >= sinceTs}
    IN  {[rarity |-> r, cnt |-> Cardinality({i \in hits : L[i].rarity = r})] :
            r \in {L[i].rarity : i \in hits}}

\* countRaritySince without the `if (row.rarity)` test: the group of the null
\* rarity becomes a key of the map
countRaritySinceNullKey(L, guildId, sinceTs) ==
    LET rows == rarityGroups(L, guildId, sinceTs)
    IN  [k \in Tiers \cup {row.rarity : row \in rows} |->
            IF \E row \in rows : row.rarity = k
            THEN (CHOOSE row \in rows : row.rarity = k).cnt
            ELSE 0]

\* countRaritySince: the map starts with the five tiers at 0; every group
\* whose rarity is not null sets map[row.rarity] = cnt
countRaritySince(L, guildId, sinceTs) ==
    LET rows == {row \in rarityGroups(L, guildId, sinceTs) : row.rarity # "none"}
    IN  [k \in Tiers \cup {row.rarity : row \in rows} |->
            IF \E row \in rows : row.rarity = k
            THEN (CHOOSE row \in rows : row.rarity = k).cnt
            ELSE 0]

\* the channel lookup that treats every row as a match
channelLookupAnyRow(S, channelId) == {r.guild_id : r \in S}

\* SELECT guild_id ... FROM settings WHERE webhook_channel_id = $1: the guild
\* ids of the matching rows (a null parameter matches no row)
channelLookup(S, channelId) ==
    {r.guild_id : r \in {x \in S : channelId.t # "null"
                                   /\ x.webhook_channel_id = channelId}}

\* SELECT guild_id FROM settings LIMIT 1: the guild ids it may return
fallbackLookup(S) == {r.guild_id : r \in S}

(***************************************************************************)
(* client.on('interactionCreate'): one invocation, handled to its end.     *)
(* The handler writes the store at most once (saveSettings), so it is one  *)
(* step; which of its awaited calls fail is an input.                      *)
(***************************************************************************)
cAll == <<"A","l","l">>
tRare == <<"R","a","r","e">>
tTz8 == <<"U","T","C","+","8">>
tBad == <<"b","a","d">>
t2d == <<"2","d">>

NoOpts == [channel |-> Null, timezone |-> Undef, loss_multiplier |-> Undef,
           egg_type |-> <<>>, period |-> <<>>]

\* setup by an administrator, with and without the optional options, by a
\* non-administrator, and outside a guild
SetupOptions ==
    {[timezone |-> Undef, loss_multiplier |-> Undef],
     [timezone |-> Str(tTz8), loss_multiplier |-> Num(2)]}

SetupBy(g, admin, c, o) ==
    [cmd |-> "setup", guildId |-> g, admin |-> admin,
     opts |-> [NoOpts EXCEPT !.channel = c, !.timezone = o.timezone,
                             !.loss_multiplier = o.loss_multiplier]]

SetupInvocations ==
    UNION {{SetupBy(g, TRUE, c, o) : c \in GuildChannels(g), o \in SetupOptions} :
              g \in Guilds}
    \cup
    {SetupBy(g, FALSE, Str(cChan1), [timezone |-> Undef, loss_multiplier |-> Undef]) :
        g \in {"g1", NoGuild}}

\* dailycount, egg and a command the handler does not know, in guild g1 and
\* outside a guild
QueryInvocations ==
    {[cmd |-> c, guildId |-> g, admin |-> FALSE, opts |-> NoOpts] :
        c \in {"dailycount", "other"}, g \in {"g1", NoGuild}}
    \cup
    {[cmd |-> "egg", guildId |-> "g1", admin |-> FALSE,
      opts |-> [NoOpts EXCEPT !.egg_type = cAll, !.period = p]] :
        p \in {cToday, c24h, t2d, tBad}}
    \cup
    {[cmd |-> "egg", guildId |-> g, admin |-> FALSE,
      opts |-> [NoOpts EXCEPT !.egg_type = tRare, !.period = c24h]] :
        g \in {"g1", NoGuild}}

\* which awaited calls of one invocation fail: deferReply, a store query,
\* the editReply of the result, the editReply of the catch block
Fails(d, s, e, c) == [defer |-> d, store |-> s, edit |-> e, catchEdit |-> c]
Failures ==
    {Fails(FALSE, FALSE, FALSE, FALSE), Fails(TRUE, FALSE, FALSE, FALSE),
     Fails(FALSE, TRUE, FALSE, FALSE), Fails(FALSE, FALSE, TRUE, FALSE),
     Fails(FALSE, TRUE, FALSE, TRUE), Fails(FALSE, FALSE, TRUE, TRUE)}

\* safeDefer: a failed deferReply is swallowed and leaves the interaction
\* neither deferred nor replied
deferred(fail) == ~fail.defer

\* the catch block: editReply of the error notice, its own failure swallowed;
\* editReply throws when the interaction is neither deferred nor replied
catchReply(fail) ==
    IF deferred(fail) /\ ~fail.catchEdit THEN "error"
    ELSE IF deferred(fail) THEN "pending"
    ELSE "none"

\* await interaction.editReply(...) of a result, inside the try block
editReply(kind, fail) ==
    IF deferred(fail) /\ ~fail.edit THEN kind ELSE catchReply(fail)

\* the response the invocation ends with:
\*   "none"     the handler returned without calling the platform
\*   "pending"  deferred only: the placeholder is never edited
\*   "denied", "saved", "report", "count"   the command's reply
\*   "error"    the error notice of the catch block
handlerReply(inv, fail, S, now) ==
    IF inv.guildId = NoGuild THEN "none"
    ELSE IF inv.cmd = "setup"
         THEN IF ~inv.admin THEN editReply("denied", fail)
              ELSE IF fail.store THEN catchReply(fail)
              ELSE editReply("saved", fail)
    ELSE IF inv.cmd = "dailycount"
         THEN IF fail.store THEN catchReply(fail)
              ELSE editReply("report", fail)
    ELSE IF inv.cmd = "egg"
         THEN IF inv.opts.period = cToday /\ fail.store THEN catchReply(fail)
              ELSE IF ~periodSince(inv.opts.period, now,
                                   getSettings(S, inv.guildId).timezone_offset).ok
                   THEN catchReply(fail)
              ELSE IF fail.store THEN catchReply(fail)
              ELSE editReply("count", fail)
    ELSE IF deferred(fail) THEN "pending"
    ELSE "none"

\* does the invocation reach saveSettings and does the query succeed
savesSettings(inv, fail) ==
    inv.guildId # NoGuild /\ inv.cmd = "setup" /\ inv.admin /\ ~fail.store

\* `getString('timezone') ?? DEFAULT_TZ`, `getNumber('loss_multiplier') ?? DEFAULT_LOSS`
tzOption(inv) ==
    IF inv.opts.timezone.t = "undef" THEN DEFAULT_TZ ELSE inv.opts.timezone.s
lossOption(inv) ==
    IF inv.opts.loss_multiplier.t = "undef" THEN DEFAULT_LOSS
    ELSE inv.opts.loss_multiplier.n

NoResp == [cmd |-> "idle", kind |-> "none"]
NoSave == [saved |-> FALSE, admin |-> FALSE, opts |-> NoOpts]

\* the effect of one invocation on the store
Command(inv, fail) ==
    /\ IF savesSettings(inv, fail)
       THEN /\ settings' = saveSettings(settings, inv.guildId, inv.opts.channel,
                                        tzOption(inv), lossOption(inv))
            /\ lastSave' = [lastSave EXCEPT ![inv.guildId] =
                                [saved |-> TRUE, admin |-> inv.admin,
                                 opts |-> inv.opts]]
       ELSE UNCHANGED <<settings, lastSave>>
    /\ UNCHANGED <<hatch_logs, clock, hook, pureVars>>

\* a store query of the invocation succeeds or fails
StoreFailures == {Fails(FALSE, FALSE, FALSE, FALSE), Fails(FALSE, TRUE, FALSE, FALSE)}

Setup ==
    \E inv \in SetupInvocations, fail \in StoreFailures :
        Command(inv, fail) /\ UNCHANGED resp

Query ==
    \E inv \in QueryInvocations :
        Command(inv, Fails(FALSE, FALSE, FALSE, FALSE)) /\ UNCHANGED resp

\* one invocation together with the response it ends with
Interaction ==
    \E inv \in SetupInvocations \cup QueryInvocations, fail \in Failures :
        /\ Command(inv, fail)
        /\ resp' = [cmd |-> inv.cmd,
                    kind |-> handlerReply(inv, fail, settings, clock)]

(***************************************************************************)
(* app.post('/webhook'): one delivery at a time, one step per awaited call *)
(***************************************************************************)
MaxLog == 2
MaxClock == 1

hpRare ==
    Body(EmbedsArr(<<Embed(Undef, FieldsArr(<<Field(Str(tHatchedFrom), Str(tRareEgg)),
                                              Field(Str(tWeight), Str(tKgValue))>>))>>),
         Undef, Undef)
hpEmpty == Body(NoEmbeds, Undef, Undef)
hpNullEmbed == Body(EmbedsArr(<<NullEmbed>>), Undef, Undef)
HookPayloads ==
    {[b EXCEPT !.channel_id = c] :
        b \in {hpRare, hpEmpty, hpNullEmbed}, c \in {Undef, Str(cChan2)}}

HookIdle ==
    [pc |-> "idle", eggName |-> Undef, weight |-> 0, rarity |-> "none",
     channelId |-> Null, guildId |-> NoGuild, status |-> 0,
     parsed |-> FALSE, failed |-> FALSE,
     len0 |-> 0, matched |-> {}, fellBack |-> FALSE, seen |-> {}]

\* bookkeeping of a delivery, not program state: parsed (the parse returned),
\* failed (a store call failed), len0 (rows of hatch_logs when it arrived),
\* matched (guilds whose row had the delivery channel at the channel lookup),
\* fellBack and seen (the fallback lookup ran; the guilds with a row then)

\* parseWebhookPayload, classifyRarity, `payload?.channel_id || WEBHOOK_CHANNEL_ID`;
\* an exception of the parse is answered by the catch block
HookReceive(payload) ==
    /\ hook.pc = "idle"
    /\ Len(hatch_logs) < MaxLog
    /\ LET p == parseWebhookPayload(payload)
       IN  IF ~p.ok
           THEN hook' = [HookIdle EXCEPT !.pc = "done", !.status = 500,
                                         !.len0 = Len(hatch_logs)]
           ELSE hook' = [HookIdle EXCEPT
                            !.pc = "lookup",
                            !.parsed = TRUE,
                            !.eggName = p.eggName,
                            !.weight = p.weight,
                            !.rarity = classifyRarity(p.weight),
                            !.channelId = IF Truthy(payload.channel_id)
                                          THEN payload.channel_id
                                          ELSE WEBHOOK_CHANNEL_ID,
                            !.len0 = Len(hatch_logs)]
    /\ UNCHANGED <<settings, hatch_logs, clock, resp, lastSave,
                   pureVars>>

\* a failing insert that has written its row before the error is raised
HookStoreFailsAfterWrite ==
    /\ hook.pc \in {"lookup", "fallback", "insert"}
    /\ hook' = [hook EXCEPT !.pc = "done", !.status = 500, !.failed = TRUE]
    /\ hatch_logs' = IF hook.pc = "insert"
                     THEN Append(hatch_logs,
                                 [guild_id |-> "unknown", egg_name |-> hook.eggName,
                                  weight |-> hook.weight, rarity |-> hook.rarity,
                                  hatched_at |-> clock])
                     ELSE hatch_logs
    /\ UNCHANGED <<settings, clock, resp, lastSave, pureVars>>

\* a store call of the delivery fails: the catch block answers 500
HookStoreFails ==
    /\ hook.pc \in {"lookup", "fallback", "insert"}
    /\ hook' = [hook EXCEPT !.pc = "done", !.status = 500, !.failed = TRUE]
    /\ UNCHANGED <<settings, hatch_logs, clock, resp, lastSave,
                   pureVars>>

\* `guildId = sres.rowCount ? sres.rows[0].guild_id : null`
HookLookup ==
    /\ hook.pc = "lookup"
    /\ LET found == channelLookup(settings, hook.channelId)
           rows == {r \in settings : r.webhook_channel_id = hook.channelId}
       IN  IF found # {}
           THEN \E g \in found :
                  hook' = [hook EXCEPT !.pc = "insert", !.guildId = g,
                                       !.matched = {r.guild_id : r \in rows}]
           ELSE hook' = [hook EXCEPT !.pc = "fallback",
                                     !.matched = {r.guild_id : r \in rows}]
    /\ UNCHANGED <<settings, hatch_logs, clock, resp, lastSave,
                   pureVars>>

\* `if (!guildId) { fallback = ...; if (fallback.rowCount) guildId = ... }`
HookFallback ==
    /\ hook.pc = "fallback"
    /\ LET any == fallbackLookup(settings)
       IN  IF any # {}
           THEN \E g \in any :
                  hook' = [hook EXCEPT !.pc = "insert", !.guildId = g,
                                       !.fellBack = TRUE,
                                       !.seen = {r.guild_id : r \in settings}]
           ELSE hook' = [hook EXCEPT !.pc = "insert", !.fellBack = TRUE,
                                     !.seen = {r.guild_id : r \in settings}]
    /\ UNCHANGED <<settings, hatch_logs, clock, resp, lastSave,
                   pureVars>>

\* `insertLog(guildId or "unknown", ...)`, then res.sendStatus(200)
HookInsert ==
    /\ hook.pc = "insert"
    /\ hatch_logs' = insertLog(hatch_logs,
                               IF hook.guildId = NoGuild THEN "unknown" ELSE hook.guildId,
                               hook.eggName, hook.weight, hook.rarity, clock)
    /\ hook' = [hook EXCEPT !.pc = "done", !.status = 200]
    /\ UNCHANGED <<settings, clock, resp, lastSave, pureVars>>

\* the response is sent and the handler is free for the next delivery
HookFinish ==
    /\ hook.pc = "done"
    /\ hook' = HookIdle
    /\ UNCHANGED <<settings, hatch_logs, clock, resp, lastSave,
                   pureVars>>

Webhook ==
    \/ \E payload \in HookPayloads : HookReceive(payload)
    \/ HookLookup
    \/ HookFallback
    \/ HookInsert
    \/ HookStoreFails
    \/ HookFinish

Tick ==
    /\ clock < MaxClock
    /\ clock' = clock + 1
    /\ UNCHANGED <<settings, hatch_logs, hook, resp, lastSave,
                   pureVars>>

SysIdle ==
    /\ settings = {} /\ hatch_logs = <<>>
    /\ clock = 0 /\ hook = HookIdle /\ resp = NoResp
    /\ lastSave = [g \in Guilds |-> NoSave]

\* the state once the process listens: empty tables, no delivery in progress
Init == ParseIdle /\ ClassIdle /\ PeriodIdle /\ ReadIdle /\ SysIdle

Next == Setup \/ Query \/ Webhook \/ Tick

Spec == Init /\ [][Next]_vars

(***************************************************************************)
(* SpecIngest: webhook deliveries alone, into a store that is empty or has *)
(* both guilds configured, with payloads of several tiers and names        *)
(***************************************************************************)
\* a title only: the name is the title, the weight comes from the kg scan
hpGodly == Body(EmbedsArr(<<Embed(Str(tTitle), NoFields)>>), Undef, Undef)
\* a "from" field whose value overlaps occurrences of "egg"
hpOverlap ==
    Body(EmbedsArr(<<Embed(Undef, FieldsArr(<<Field(Str(tHatchedFrom), Str(tOverlap))>>))>>),
         Undef, Undef)
IngestPayloads ==
    {[b EXCEPT !.channel_id = c] :
        b \in {hpRare, hpGodly, hpOverlap, hpEmpty}, c \in {Undef, Str(cChan2)}}

\* both guilds configured by /setup with the optional options omitted
FirstSetup(g) ==
    SetupBy(g, TRUE, IF g = "g1" THEN Str(cChan1) ELSE Str(cChan2),
            [timezone |-> Undef, loss_multiplier |-> Undef])
ConfiguredTable ==
    {Row(g, FirstSetup(g).opts.channel, Str(DEFAULT_TZ), Num(DEFAULT_LOSS)) : g \in Guilds}

IngestInit ==
    /\ \/ settings = {} /\ lastSave = [g \in Guilds |-> NoSave]
       \/ /\ settings = ConfiguredTable
          /\ lastSave = [g \in Guilds |-> [saved |-> TRUE, admin |-> TRUE,
                                            opts |-> FirstSetup(g).opts]]
    /\ hatch_logs = <<>> /\ clock = 0 /\ hook = HookIdle /\ resp = NoResp
    /\ ParseIdle /\ ClassIdle /\ PeriodIdle /\ ReadIdle

Ingest ==
    \/ \E payload \in IngestPayloads : HookReceive(payload)
    \/ HookLookup
    \/ HookFallback
    \/ HookInsert
    \/ HookStoreFails
    \/ HookFinish

IngestNext == Ingest \/ Tick

SpecIngest == IngestInit /\ [][IngestNext]_vars

(***************************************************************************)
(* SpecCmd: command invocations alone, each with the response it ends with *)
(***************************************************************************)
CmdNext == Interaction \/ Tick

SpecCmd == Init /\ [][CmdNext]_vars

(***************************************************************************)
(* SpecParse: parseWebhookPayload applied to every payload of Payloads     *)
(***************************************************************************)
ParseInit ==
    /\ pStage = "in"
    /\ pBody \in Payloads(MaxFields)
    /\ pRes = NoResult
    /\ ClassIdle /\ PeriodIdle /\ ReadIdle /\ SysIdle

Interpret ==
    /\ pStage = "in"
    /\ pRes' = parseWebhookPayload(pBody)
    /\ pStage' = "out"
    /\ UNCHANGED <<pBody, classVars, periodVars, readVars, sysVars>>

ParseNext == Interpret

SpecParse == ParseInit /\ [][ParseNext]_vars

(***************************************************************************)
(* SpecClassify: classifyRarity applied to every weight of the range       *)
(***************************************************************************)
MaxKg == 16000
MaxNegKg == 1000

ClassInit ==
    /\ kStage = "in"
    /\ kg \in (0 - MaxNegKg)..MaxKg
    /\ tier = "none"
    /\ ParseIdle /\ PeriodIdle /\ ReadIdle /\ SysIdle

Classify ==
    /\ kStage = "in"
    /\ tier' = classifyRarity(kg)
    /\ kStage' = "out"
    /\ UNCHANGED <<kg, parseVars, periodVars, readVars, sysVars>>

ClassNext == Classify

SpecClassify == ClassInit /\ [][ClassNext]_vars

(***************************************************************************)
(* SpecPeriod: period resolution applied to instants, timezone tokens and  *)
(* period tokens                                                           *)
(***************************************************************************)
MaxNow == 47

\* the token UTC+h or UTC-h
TzToken(h) ==
    <<"U","T","C">> \o (IF h < 0 THEN <<"-">> ELSE <<"+">>)
                    \o NumToString(IF h < 0 THEN 0 - h ELSE h)
Offsets == (0 - 12)..14
TzTokens == {TzToken(h) : h \in Offsets}

PeriodTokens ==
    {cToday, c24h, <<"7","d">>, <<"2","d">>, <<"3","0","d">>,
     <<"g","a","r","b","a","g","e">>, <<"b","a","d">>, <<"d">>,
     <<"7","d","a","y","s">>, <<>>}

PeriodInit ==
    /\ rStage = "in"
    /\ rNow \in 0..MaxNow
    /\ rTz \in TzTokens
    /\ rPeriod \in PeriodTokens
    /\ rRes = InvalidDate
    /\ ParseIdle /\ ClassIdle /\ ReadIdle /\ SysIdle

Resolve ==
    /\ rStage = "in"
    /\ rRes' = periodSince(rPeriod, rNow, rTz)
    /\ rStage' = "out"
    /\ UNCHANGED <<rNow, rTz, rPeriod, parseVars, classVars, readVars, sysVars>>

PeriodNext == Resolve

SpecPeriod == PeriodInit /\ [][PeriodNext]_vars

(***************************************************************************)
(* SpecSettings: getSettings applied to the rows the table can hold        *)
(***************************************************************************)
\* the columns webhook_channel_id, timezone_offset (TEXT) and loss_multiplier
\* (REAL) are nullable; a REAL column is read back as a number
ChannelColumn == {Null, Str(<<>>), Str(cChan2)}
TimezoneColumn == {Null, Str(<<>>), Str(tTz8)}
LossColumn == {Null, Num(0), Num(2)}

\* at most one row per guild_id (the primary key)
StoredRows(g) ==
    {{}} \cup {{[guild_id |-> g, webhook_channel_id |-> c,
                  timezone_offset |-> z, loss_multiplier |-> l]} :
                  c \in ChannelColumn, z \in TimezoneColumn, l \in LossColumn}
Tables == {a \cup b : a \in StoredRows("g1"), b \in StoredRows("g2")}

SettingsInit ==
    /\ gStage = "in"
    /\ gGuild \in Guilds
    /\ gRes = getSettings({}, "g1")
    /\ settings \in Tables
    /\ hatch_logs = <<>> /\ clock = 0 /\ hook = HookIdle /\ resp = NoResp
    /\ lastSave = [g \in Guilds |-> NoSave]
    /\ ParseIdle /\ ClassIdle /\ PeriodIdle

ReadSettings ==
    /\ gStage = "in"
    /\ gRes' = getSettings(settings, gGuild)
    /\ gStage' = "out"
    /\ UNCHANGED <<gGuild, parseVars, classVars, periodVars, sysVars>>

SettingsNext == ReadSettings

SpecSettings == SettingsInit /\ [][SettingsNext]_vars

(***************************************************************************)
(* Claims about period resolution                                          *)
(***************************************************************************)
\* the offset a token UTC+h / UTC-h of TzTokens stands for
TokenOffset(tz) == CHOOSE h \in Offsets : TzToken(h) = tz

\* the latest instant t <= now at which the local time (UTC+h) is 00:00
MostRecentLocalMidnight(now, h) ==
    CHOOSE t \in (now - 23)..now : (t + h) % 24 = 0

\* C6 (as stated): for "today" the cutoff is the most recent local midnight
\* of the guild, for every instant and every offset in UTC-12..UTC+14, hence
\* now - 24h < cutoff <= now.
C6_TodayIsLocalMidnight ==
    (rStage = "out" /\ rPeriod = cToday) =>
        /\ rRes.ok
        /\ rRes.since = MostRecentLocalMidnight(rNow, TokenOffset(rTz))
        /\ rNow - 24 < rRes.since
        /\ rRes.since <= rNow

\* a token of the form <integer>d
IsIntegerD(p) ==
    /\ Len(p) >= 2
    /\ p[Len(p)] = "d"
    /\ \A i \in 1..(Len(p) - 1) : IsDigit(p[i])

\* C7 (as stated): every period token that is not "today", not "24h" and not
\* <integer>d resolves to the cutoff of "24h" (now minus 24 hours) and does
\* not end in an error.
C7_FallbackTo24h ==
    (rStage = "out" /\ rPeriod # cToday /\ rPeriod # c24h /\ ~IsIntegerD(rPeriod)) =>
        /\ rRes.ok
        /\ rRes.since = rNow - 24

(***************************************************************************)
(* Claims about the payload interpreter                                    *)
(***************************************************************************)
\* the entries of the first embed's field list, read from the document
FirstFields(body) ==
    IF body.embeds.t = "arr" /\ body.embeds.a # <<>>
       /\ body.embeds.a[1].t = "obj" /\ body.embeds.a[1].fields.t = "arr"
    THEN body.embeds.a[1].fields.a
    ELSE <<>>

FirstTitle(body) ==
    IF body.embeds.t = "arr" /\ body.embeds.a # <<>> /\ body.embeds.a[1].t = "obj"
    THEN body.embeds.a[1].title
    ELSE Undef

LabelContains(f, sub) ==
    f.t = "obj" /\ f.name.t = "str" /\ includes(toLowerCase(f.name.s), sub)

ValueText(f) ==
    IF f.value.t = "str" THEN f.value.s
    ELSE IF f.value.t = "num" /\ f.value.n # 0 THEN NumToString(f.value.n)
    ELSE <<>>

FromFields(body) ==
    {i \in 1..Len(FirstFields(body)) : LabelContains(FirstFields(body)[i], cFrom)}

Normalized(f) == trim(StripEgg(ValueText(f)))

LastFromName(body) == Normalized(FirstFields(body)[MaxOf(FromFields(body))])

\* the name the later strategies give: title, content pattern, "Unknown"
LaterName(body) ==
    IF Truthy(FirstTitle(body)) THEN FirstTitle(body)
    ELSE IF body.content.t = "str" /\ HatchedFromMatch(body.content.s).found
            /\ trim(StripEgg(HatchedFromMatch(body.content.s).text)) # <<>>
         THEN Str(trim(StripEgg(HatchedFromMatch(body.content.s).text)))
    ELSE Str(cUnknown)

\* the weight fields whose value holds a numeric token
WeightFields(body) ==
    {i \in 1..Len(FirstFields(body)) :
        /\ LabelContains(FirstFields(body)[i], cWeight)
        /\ FirstNumber(ValueText(FirstFields(body)[i])).found}

LastFieldWeight(body) ==
    FirstNumber(ValueText(FirstFields(body)[MaxOf(WeightFields(body))])).val

\* C1 (as stated): parseWebhookPayload never throws and returns a non-empty
\* string name and a weight >= 0 for every JSON-object payload.
C1_NeverFails ==
    pStage = "out" =>
        /\ pRes.ok
        /\ pRes.eggName.t = "str"
        /\ pRes.eggName.s # <<>>
        /\ pRes.weight >= 0

\* C2 (as stated): whenever the first embed has fields whose label contains
\* "from", the returned name is the normalized value of the last of them.
C2_LastFromAlways ==
    (pStage = "out" /\ pRes.ok /\ FromFields(pBody) # {}) =>
        pRes.eggName = Str(LastFromName(pBody))

\* C2 (amended): the returned name is the normalized value of the last "from"
\* field when that value is non-empty; when it is empty, no earlier "from"
\* field is used and the name is the one the later strategies give.
C2_LastFromWins ==
    (pStage = "out" /\ pRes.ok /\ FromFields(pBody) # {}) =>
        IF LastFromName(pBody) # <<>>
        THEN pRes.eggName = Str(LastFromName(pBody))
        ELSE pRes.eggName = LaterName(pBody)

\* C2 witness: two "from" fields with different names, a title and a content
\* present, and the last field's name returned.
C2_Witness ==
    /\ pStage = "out" /\ pRes.ok
    /\ Cardinality(FromFields(pBody)) = 2
    /\ Normalized(FirstFields(pBody)[1]) # Normalized(FirstFields(pBody)[2])
    /\ Normalized(FirstFields(pBody)[1]) # <<>>
    /\ Truthy(FirstTitle(pBody))
    /\ Truthy(pBody.content)
    /\ pRes.eggName = Str(Normalized(FirstFields(pBody)[2]))

\* C3 (as stated): when a "weight" field holds a numeric token the returned
\* weight is the field's number (the last such field's), 0 included, and the
\* '<number> kg' scan of the serialized payload is not used.
C3_FieldWeightFirst ==
    (pStage = "out" /\ pRes.ok /\ WeightFields(pBody) # {}) =>
        pRes.weight = LastFieldWeight(pBody)

(***************************************************************************)
(* Claims about the rarity classifier                                      *)
(***************************************************************************)
\* C4: classifyRarity is total and matches the band table: semi_huge iff
\* 4.0 <= w < 5.0, huge iff 5.0 <= w < 7.0, semi_titan iff 7.0 <= w < 8.0,
\* titan iff 8.0 <= w < 9.0, godly iff 9.0 <= w <= 15.0, none otherwise.
C4_BandTable ==
    kStage = "out" =>
        /\ tier \in {"semi_huge", "huge", "semi_titan", "titan", "godly", "none"}
        /\ (tier = "semi_huge") <=> (4000 <= kg /\ kg < 5000)
        /\ (tier = "huge") <=> (5000 <= kg /\ kg < 7000)
        /\ (tier = "semi_titan") <=> (7000 <= kg /\ kg < 8000)
        /\ (tier = "titan") <=> (8000 <= kg /\ kg < 9000)
        /\ (tier = "godly") <=> (9000 <= kg /\ kg <= 15000)
        /\ (tier = "none") <=> (kg < 4000 \/ kg > 15000)
        /\ (kg = 3999 => tier = "none")
        /\ (kg = 4000 => tier = "semi_huge")
        /\ (kg = 8999 => tier = "titan")
        /\ (kg = 9000 => tier = "godly")
        /\ (kg = 15000 => tier = "godly")
        /\ (kg = 15001 => tier = "none")

\* C4 witness: the closed upper boundary 15.0 has been classified godly.
C4_Witness == kStage = "out" /\ kg = 15000 /\ tier = "godly"

(***************************************************************************)
(* Claims about command handling                                           *)
(***************************************************************************)
\* C5 (as stated): every slash-command invocation ends with a terminal
\* response (the command's reply, or the error notice), whatever the command
\* name, the guild, the caller's permission and the failing calls are.
C5_AlwaysAnswered ==
    resp.cmd # "idle" => resp.kind \in {"denied", "saved", "report", "count", "error"}

(***************************************************************************)
(* Claims about webhook ingestion and the settings store                   *)
(***************************************************************************)
\* the row a finished delivery appended (the last one: one delivery at a time)
Appended == hatch_logs[Len(hatch_logs)]

\* C8: a delivery whose parse returned and whose store calls all succeeded
\* records exactly one event; its guild is a guild whose row matched the
\* delivery channel at the channel lookup, else a guild that had a row at the
\* fallback lookup, else "unknown"; "unknown" is written only when the
\* fallback lookup found the settings store empty.
C8_Attribution ==
    (hook.pc = "done" /\ hook.parsed /\ ~hook.failed) =>
        /\ hook.status = 200
        /\ Len(hatch_logs) = hook.len0 + 1
        /\ IF hook.matched # {} THEN Appended.guild_id \in hook.matched
           ELSE IF hook.seen # {} THEN Appended.guild_id \in hook.seen
           ELSE Appended.guild_id = "unknown"
        /\ (Appended.guild_id = "unknown" => (hook.fellBack /\ hook.seen = {}))
        /\ (hook.matched # {} => ~hook.fellBack)

\* C8 witness: no row matched the delivery channel, both guilds had a row at
\* the fallback lookup, and the event went to one of them.
C8_Witness ==
    /\ hook.pc = "done" /\ hook.status = 200
    /\ hook.matched = {} /\ hook.fellBack /\ hook.seen = Guilds
    /\ Appended.guild_id = "g2"

\* C9: a delivery is answered 200 exactly when it appended one row, and 500
\* otherwise with hatch_logs as it found it; a failed store call gives 500;
\* before the answer nothing is appended.
C9_StatusMatchesInsert ==
    /\ hook.pc = "done" =>
        /\ hook.status \in {200, 500}
        /\ (hook.status = 200) <=> (Len(hatch_logs) = hook.len0 + 1)
        /\ (hook.status = 500) <=> (Len(hatch_logs) = hook.len0)
        /\ (hook.failed => hook.status = 500)
    /\ hook.pc \in {"lookup", "fallback", "insert"} =>
        /\ hook.status = 0
        /\ Len(hatch_logs) = hook.len0

\* C9 witness: the insert of a delivery attributed to a guild failed, the
\* answer is 500 and no row was added to a non-empty hatch_logs.
C9_Witness ==
    /\ hook.pc = "done" /\ hook.failed /\ hook.status = 500
    /\ hook.guildId \in Guilds
    /\ hook.len0 > 0 /\ Len(hatch_logs) = hook.len0

\* the row the options of a completed save stand for
SavedRow(g, opts) ==
    Row(g, opts.channel,
        Str(IF opts.timezone.t = "undef" THEN DEFAULT_TZ ELSE opts.timezone.s),
        Num(IF opts.loss_multiplier.t = "undef" THEN DEFAULT_LOSS
            ELSE opts.loss_multiplier.n))

\* C10: settings holds at most one row per guild, and the rows of a guild are
\* exactly the row of its last completed save (omitted options replaced by
\* the process defaults), none before its first save.
C10_Upsert ==
    /\ \A r1 \in settings, r2 \in settings : r1.guild_id = r2.guild_id => r1 = r2
    /\ \A r \in settings : r.guild_id \in Guilds
    /\ \A g \in Guilds :
         {r \in settings : r.guild_id = g} =
             IF lastSave[g].saved THEN {SavedRow(g, lastSave[g].opts)} ELSE {}

\* C10 witness: both guilds are configured, the last save of g1 omitted the
\* timezone and the multiplier and its row holds the defaults, and a webhook
\* delivery has been recorded in between.
C10_Witness ==
    /\ lastSave["g1"].saved /\ lastSave["g2"].saved
    /\ lastSave["g1"].opts.timezone = Undef
    /\ lastSave["g1"].opts.loss_multiplier = Undef
    /\ lastSave["g2"].opts.timezone = Str(tTz8)
    /\ Row("g1", Str(cChan3), Str(DEFAULT_TZ), Num(DEFAULT_LOSS)) \in settings
    /\ Len(hatch_logs) > 0

(***************************************************************************)
(* Claims about getSettings                                                *)
(***************************************************************************)
\* a stored column value that is present and non-empty
Present(v) == v.t = "num" \/ (v.t = "str" /\ v.s # <<>>)

\* C11 (as stated): getSettings returns exactly the process defaults when the
\* guild has no row; when it has one, each field is the stored value if that
\* value is present and non-empty and the process default otherwise,
\* independently per field.
C11_FieldwiseDefault ==
    gStage = "out" =>
        LET rows == {r \in settings : r.guild_id = gGuild}
        IN  IF rows = {}
            THEN gRes = [webhook_channel_id |-> WEBHOOK_CHANNEL_ID,
                         timezone_offset |-> DEFAULT_TZ,
                         loss_multiplier |-> DEFAULT_LOSS]
            ELSE \A r \in rows :
                   /\ gRes.webhook_channel_id =
                          IF Present(r.webhook_channel_id) THEN r.webhook_channel_id
                          ELSE WEBHOOK_CHANNEL_ID
                   /\ gRes.timezone_offset =
                          IF Present(r.timezone_offset) THEN r.timezone_offset.s
                          ELSE DEFAULT_TZ
                   /\ gRes.loss_multiplier =
                          IF Present(r.loss_multiplier) THEN r.loss_multiplier.n
                          ELSE DEFAULT_LOSS

(***************************************************************************)
(* Claims about aggregation                                                *)
(***************************************************************************)
\* the guild ids a row of hatch_logs can carry, and the cutoffs asked for
LogGuilds == Guilds \cup {"unknown"}
Cutoffs == 0..(MaxClock + 1)

\* the number of events of a guild at or after a cutoff carrying a tier
TierCount(g, c, k) ==
    Cardinality({i \in 1..Len(hatch_logs) :
                    /\ hatch_logs[i].guild_id = g
                    /\ hatch_logs[i].hatched_at >= c
                    /\ hatch_logs[i].rarity = k})

\* C12: for every guild and cutoff countRaritySince returns a map with
\* exactly the five tier keys, each the number of the guild's events at or
\* after the cutoff carrying that tier; events without a tier add no key and
\* are counted in no bucket.
C12_FiveTierCounts ==
    \A g \in LogGuilds, c \in Cutoffs :
        LET map == countRaritySince(hatch_logs, g, c)
        IN  /\ DOMAIN map = Tiers
            /\ \A k \in Tiers : map[k] = TierCount(g, c, k)

\* C12 witness: guild g2 has a godly event at instant 0 and an event without
\* a tier at instant 1; the map since 0 counts the godly event and nothing
\* else, the map since 1 is 0 for every tier.
C12_Witness ==
    /\ Len(hatch_logs) = 2
    /\ hatch_logs[1].guild_id = "g2" /\ hatch_logs[2].guild_id = "g2"
    /\ hatch_logs[1].rarity = "godly" /\ hatch_logs[1].hatched_at = 0
    /\ hatch_logs[2].rarity = "none" /\ hatch_logs[2].hatched_at = 1
    /\ countRaritySince(hatch_logs, "g2", 0) = [k \in Tiers |-> IF k = "godly" THEN 1 ELSE 0]
    /\ countRaritySince(hatch_logs, "g2", 1) = [k \in Tiers |-> 0]

(***************************************************************************)
(* Claims about what each handler leaves alone                             *)
(***************************************************************************)
\* C13: in every step hatch_logs keeps the rows it has, unchanged and in
\* place, and at most grows by one row; it grows only in the insert of a
\* webhook delivery, never in a setup, dailycount or egg invocation; settings
\* changes only in a step that completes a save of a setup invocation made by
\* an administrator, never in a step of a webhook delivery (every such step
\* changes hook) nor in a dailycount or egg invocation.
C13_AppendOnlyFrames ==
    [][ /\ Len(hatch_logs') >= Len(hatch_logs)
        /\ SubSeq(hatch_logs', 1, Len(hatch_logs)) = hatch_logs
        /\ hatch_logs' # hatch_logs =>
              /\ Len(hatch_logs') = Len(hatch_logs) + 1
              /\ settings' = settings
              /\ HookInsert
              /\ ~(Setup \/ Query)
        /\ settings' # settings =>
              /\ hook' = hook
              /\ \E g \in Guilds : /\ lastSave'[g] # lastSave[g]
                                   /\ lastSave'[g].saved
                                   /\ lastSave'[g].admin
              /\ ~Query
              /\ Setup
      ]_vars

\* C13 witness: an event recorded while no guild was configured is still the
\* first row, unchanged, after guild g1 was configured and a second event was
\* recorded for it.
C13_Witness ==
    /\ Len(hatch_logs) = 2
    /\ hatch_logs[1].guild_id = "unknown" /\ hatch_logs[1].hatched_at = 0
    /\ hatch_logs[2].guild_id = "g1" /\ hatch_logs[2].hatched_at = 1
    /\ lastSave["g1"].saved /\ lastSave["g1"].admin
    /\ hook.pc = "idle"

(***************************************************************************)
(* Claims about the names in hatch_logs                                    *)
(***************************************************************************)
\* C14 (as stated): every row of hatch_logs has a name that is a string with
\* no leading or trailing whitespace and no case-insensitive occurrence of
\* "egg", whichever strategy produced it and whatever the input text is.
C14_NamesNormalized ==
    \A i \in 1..Len(hatch_logs) :
        /\ hatch_logs[i].egg_name.t = "str"
        /\ trim(hatch_logs[i].egg_name.s) = hatch_logs[i].egg_name.s
        /\ ~includes(toLowerCase(hatch_logs[i].egg_name.s), cEgg)

====
